---- MODULE Spec2Model ----
(***************************************************************************)
(* drouter: a radix-trie request router (Router) and the HTTP dispatcher   *)
(* built on it (HttpRouter).                                               *)
(*                                                                         *)
(* Strings are sequences of one-character strings, so that they can be     *)
(* sliced and compared byte by byte as the Go code does.  A nil pointer    *)
(* is the empty sequence (root = <<>>), a nil handle is the value nil.     *)
(*                                                                         *)
(* Router, its pool and AddRoute/Lookup are modelled from src/router.go;   *)
(* HttpRouter from src/router_test.go.  The trie node (addRoute, getValue, *)
(* findCaseInsensitivePath), countParams and CleanPath are not part of the *)
(* available sources: they are modelled from sections 3 and 4 of the       *)
(* specification.                                                          *)
(***************************************************************************)
EXTENDS Integers, Sequences, FiniteSets, TLC

VARIABLES
    root,       \* Router.root: <<>> (nil) or <<node>>
    maxParams,  \* Router.maxParams
    poolNew,    \* Router.paramsPool.New # nil
    pool,       \* number of buffers resting in Router.paramsPool
    routes,     \* history: pattern -> handle of the AddRoute calls that returned
    res,        \* the call that has just returned, with its arguments and results
    routers,    \* HttpRouter.routers: method -> root of that method's Router
    hPoolNew,   \* HttpRouter.paramsPool.New # nil
    hPool,      \* number of buffers resting in HttpRouter.paramsPool
    hMaxParams, \* HttpRouter.maxParams
    globalAllowed,  \* HttpRouter.globalAllowed
    opts,       \* HttpRouter's option fields
    handled,    \* history: <<method, pattern>> of the Handle calls that returned
    resp,       \* the response to the request ServeHTTP has just served
    calls,      \* goroutine -> the call it is in, with its position
    free,       \* the buffers resting in Router.paramsPool
    hFree,      \* the buffers resting in HttpRouter.paramsPool
    bufs        \* buffer -> the Params slice it holds

cvars == <<root, maxParams, poolNew, pool, routes, res>>

hvars == <<routers, hPoolNew, hPool, hMaxParams, globalAllowed, opts,
           handled, resp>>

kvars == <<calls, free, hFree, bufs>>

vars == <<cvars, hvars, kvars>>

nil == "nil"

----------------------------------------------------------------------------
(* Bounds of the model.                                                    *)

MaxRoutes == 3      \* successful AddRoute calls per run
MaxPathLen == 4     \* length of a request path

----------------------------------------------------------------------------
(* Strings.                                                                *)

Take(s, n) == SubSeq(s, 1, n)

Drop(s, n) == SubSeq(s, n + 1, Len(s))

HasPrefix(s, p) == Len(p) <= Len(s) /\ Take(s, Len(p)) = p

Min(a, b) == IF a < b THEN a ELSE b

IsWild(c) == c \in {":", "*"}

\* index of the first "/" of s, or Len(s) + 1
SegEnd(s) ==
    LET S == {i \in 1..Len(s) : s[i] = "/"}
    IN  IF S = {} THEN Len(s) + 1 ELSE CHOOSE i \in S : \A j \in S : i <= j

\* the number of leading bytes a and b share
longestCommonPrefix(a, b) ==
    LET S == {i \in 0..Min(Len(a), Len(b)) : \A j \in 1..i : a[j] = b[j]}
    IN  CHOOSE i \in S : \A j \in S : j <= i

----------------------------------------------------------------------------
(* Pattern tokenizer (specification 4.1).                                  *)

\* number of ':' and '*' in the pattern (uint16, saturating)
countParams(path) ==
    Min(Cardinality({i \in 1..Len(path) : IsWild(path[i])}), 65535)

\* the segment that begins s
Segment(s) == Take(s, SegEnd(s) - 1)

\* the wildcard that starts at index start of path
WildcardAt(path, start) ==
    [wildcard |-> Segment(Drop(path, start - 1)), i |-> start,
     valid |-> \A k \in (start + 1)..(start + Len(Segment(Drop(path, start - 1))) - 1) :
                  ~IsWild(path[k])]

\* the first wildcard of path: its text up to the next '/', its index
\* (0: none), and whether its name holds no further ':' or '*'
findWildcard(path) ==
    IF \A i \in 1..Len(path) : ~IsWild(path[i])
    THEN [wildcard |-> <<>>, i |-> 0, valid |-> FALSE]
    ELSE WildcardAt(path, CHOOSE i \in 1..Len(path) :
                              /\ IsWild(path[i])
                              /\ \A j \in 1..(i - 1) : ~IsWild(path[j]))

----------------------------------------------------------------------------
(* Trie node (specification 3).                                            *)

EmptyNode ==
    [path |-> <<>>, indices |-> <<>>, children |-> <<>>, priority |-> 0,
     nType |-> "static", wildChild |-> FALSE, handle |-> nil,
     fullPath |-> <<>>]

Ok(n) == [ok |-> TRUE, node |-> n, err |-> "none"]

Err(n, kind) == [ok |-> FALSE, node |-> n, err |-> kind]

\* reorder that moves the child and leaves indices as they were
reorder_ChildrenOnly(n, pos) ==
    LET cs == n.children
        prio == cs[pos].priority
        S == {j \in 1..pos : \A k \in j..(pos - 1) : cs[k].priority < prio}
        newPos == CHOOSE j \in S : \A k \in S : j <= k
    IN  [n EXCEPT !.children = Take(cs, newPos - 1) \o <<cs[pos]>>
                                 \o SubSeq(cs, newPos, pos - 1)
                                 \o Drop(cs, pos)]

\* move child pos towards the front while its priority exceeds its
\* predecessor's; indices move in lockstep
reorder(n, pos) ==
    LET cs == n.children
        prio == cs[pos].priority
        S == {j \in 1..pos : \A k \in j..(pos - 1) : cs[k].priority < prio}
        newPos == CHOOSE j \in S : \A k \in S : j <= k
        move(s) == Take(s, newPos - 1) \o <<s[pos]>>
                   \o SubSeq(s, newPos, pos - 1) \o Drop(s, pos)
    IN  [n EXCEPT !.children = move(cs),
                  !.indices = IF Len(n.indices) = Len(cs)
                              THEN move(n.indices) ELSE n.indices]

\* split that forgets to clear wildChild on the shortened node
split_KeepsWildChild(n, i) ==
    LET child == [n EXCEPT !.path = Drop(n.path, i), !.nType = "static",
                           !.priority = n.priority - 1]
    IN  [n EXCEPT !.path = Take(n.path, i), !.indices = <<n.path[i + 1]>>,
                  !.children = <<child>>, !.handle = nil, !.fullPath = <<>>]

\* split n after its first i bytes: the tail moves into a new static child
split(n, i) ==
    LET child == [n EXCEPT !.path = Drop(n.path, i), !.nType = "static",
                           !.priority = n.priority - 1]
    IN  [n EXCEPT !.path = Take(n.path, i), !.indices = <<n.path[i + 1]>>,
                  !.children = <<child>>, !.wildChild = FALSE,
                  !.handle = nil, !.fullPath = <<>>]

\* a new wildcard node of kind t for the wildcard text w
WildNode(t, w) ==
    [EmptyNode EXCEPT !.nType = t, !.path = w, !.priority = 1]

\* n as the parent of the parameter child holding the rest of the pattern
\* (the result of sub)
WithParamChain(n, prefix, w, sub) ==
    IF ~sub.ok THEN Err(n, sub.err)
    ELSE Ok([n EXCEPT !.path = prefix, !.wildChild = TRUE,
                      !.children = <<[WildNode("param", w) EXCEPT
                                         !.indices = <<"/">>,
                                         !.children = <<sub.node>>]>>])

\* n as the parent of a wildcard leaf of kind t that carries the handle
WithWildLeaf(n, prefix, t, w, fullPath, handle) ==
    Ok([n EXCEPT !.path = prefix, !.wildChild = TRUE,
                 !.children = <<[WildNode(t, w) EXCEPT
                                    !.handle = handle,
                                    !.fullPath = fullPath]>>])

RECURSIVE insertChild(_, _, _, _)

\* insertChild with the first wildcard w of path, which ends at wEnd;
\* prefix is the static text before it (n's own path when there is none)
insertWild(n, path, fullPath, handle, w, wEnd, prefix) ==
    IF Len(w) < 2 THEN Err(n, "EmptyWildcardName")
    ELSE IF \E k \in 2..Len(w) : IsWild(w[k])
    THEN Err(n, "MultipleWildcardChars")
    ELSE IF Len(n.children) > 0 THEN Err(n, "StaticConflict")
    ELSE IF w[1] = ":"
    THEN IF wEnd < Len(path)
         THEN WithParamChain(n, prefix, w,
                  insertChild([EmptyNode EXCEPT !.priority = 1],
                              Drop(path, wEnd), fullPath, handle))
         ELSE WithWildLeaf(n, prefix, "param", w, fullPath, handle)
    ELSE IF wEnd # Len(path) THEN Err(n, "CatchAllNotTerminal")
    ELSE IF prefix = <<>> \/ prefix[Len(prefix)] # "/"
    THEN Err(n, "CatchAllNotTerminal")
    ELSE WithWildLeaf(n, prefix, "catchAll", w, fullPath, handle)

insertChildAt(n, path, fullPath, handle, w) ==
    IF w.i = 0
    THEN Ok([n EXCEPT !.path = path, !.handle = handle,
                      !.fullPath = fullPath])
    ELSE insertWild(n, path, fullPath, handle, w.wildcard,
                    w.i - 1 + Len(w.wildcard),
                    IF w.i > 1 THEN Take(path, w.i - 1) ELSE n.path)

\* hang path below n: static bytes up to the first wildcard go into n, every
\* wildcard becomes the single child of the node before it
insertChild(n, path, fullPath, handle) ==
    insertChildAt(n, path, fullPath, handle, findWildcard(path))

\* the position of byte c in indices, or 0
IndexOf(indices, c) ==
    LET S == {k \in 1..Len(indices) : indices[k] = c}
    IN  IF S = {} THEN 0 ELSE CHOOSE k \in S : \A j \in S : k <= j

\* the result sub of an insertion below n0: failed, n0 stands as it was
OrErr(n0, sub) == IF ~sub.ok THEN Err(n0, sub.err) ELSE sub

\* n with the subtree of its only child replaced by the result of sub
WithOnlyChild(n0, n, sub) ==
    IF ~sub.ok THEN Err(n0, sub.err)
    ELSE Ok([n EXCEPT !.children = <<sub.node>>])

\* n with child k replaced by the result of sub and moved up by priority
WithChild(n0, n, k, sub) ==
    IF ~sub.ok THEN Err(n0, sub.err)
    ELSE Ok(reorder([n EXCEPT !.children[k] = sub.node], k))

\* n with the new static child sub, indexed by byte c
WithNewChild(n0, n, c, sub) ==
    IF ~sub.ok THEN Err(n0, sub.err)
    ELSE Ok(reorder([n EXCEPT !.indices = Append(@, c),
                              !.children = Append(@, sub.node)],
                    Len(n.children) + 1))

\* the wildcard child ch takes the rest p of the pattern: same wildcard,
\* not a catch-all, and the wildcard ends where ch.path ends
WildChildTakes(ch, p) ==
    /\ HasPrefix(p, ch.path)
    /\ ch.nType # "catchAll"
    /\ (Len(ch.path) >= Len(p) \/ p[Len(ch.path) + 1] = "/")

RECURSIVE addWalk(_, _, _, _)

\* the descent from n (n0 after its split, if any) with the pattern's rest
\* p, which is not empty
descend(n0, n, p, fullPath, handle) ==
    IF n.wildChild
    THEN IF WildChildTakes(n.children[1], p)
         THEN WithOnlyChild(n0, n,
                  addWalk([n.children[1] EXCEPT !.priority = @ + 1],
                          p, fullPath, handle))
         ELSE Err(n0, IF IsWild(p[1]) THEN "WildcardConflict"
                                      ELSE "StaticConflict")
    ELSE IF IndexOf(n.indices, p[1]) # 0
    THEN WithChild(n0, n, IndexOf(n.indices, p[1]),
             addWalk([n.children[IndexOf(n.indices, p[1])]
                         EXCEPT !.priority = @ + 1],
                     p, fullPath, handle))
    ELSE IF ~IsWild(p[1])
    THEN WithNewChild(n0, n, p[1],
             insertChild([EmptyNode EXCEPT !.priority = 1],
                         p, fullPath, handle))
    ELSE OrErr(n0, insertChild(n, p, fullPath, handle))

\* the end of the pattern at n: n takes the handle unless it has one
terminate(n0, n, fullPath, handle) ==
    IF n.handle # nil THEN Err(n0, "DuplicateHandler")
    ELSE Ok([n EXCEPT !.handle = handle, !.fullPath = fullPath])

\* n0, split where the pattern leaves its path after i common bytes
splitAt(n0, i) == IF i < Len(n0.path) THEN split(n0, i) ELSE n0

\* one step of the insertion at node n0 (its priority already incremented
\* by the caller) with the remaining pattern path: split, then descend or
\* terminate
addWalkAt(n0, path, fullPath, handle, i) ==
    IF i = Len(path)
    THEN terminate(n0, splitAt(n0, i), fullPath, handle)
    ELSE descend(n0, splitAt(n0, i), Drop(path, i), fullPath, handle)

addWalk(n0, path, fullPath, handle) ==
    addWalkAt(n0, path, fullPath, handle,
              longestCommonPrefix(path, n0.path))

\* the first insertion makes the node the root
AsRoot(n0, sub) ==
    IF ~sub.ok THEN Err(n0, sub.err)
    ELSE Ok([sub.node EXCEPT !.nType = "root"])

\* node.addRoute: on failure the trie is the one before the call
addRoute(n, fullPath, handle) ==
    IF n.path = <<>> /\ n.children = <<>>
    THEN AsRoot(n, insertChild([n EXCEPT !.priority = @ + 1],
                               fullPath, fullPath, handle))
    ELSE OrErr(n, addWalk([n EXCEPT !.priority = @ + 1],
                          fullPath, fullPath, handle))

----------------------------------------------------------------------------
(* Lookup in the trie (specification 4.3).                                 *)

Miss(ps, tsr) == [handle |-> nil, ps |-> ps, tsr |-> tsr]

Hit(h, ps) == [handle |-> h, ps |-> ps, tsr |-> FALSE]

\* n has a static child whose path is "/" and which carries a handler
SlashChild(n) ==
    \E k \in 1..Len(n.children) :
        /\ n.children[k].nType = "static"
        /\ n.children[k].path = <<"/">>
        /\ n.children[k].handle # nil

\* the result of ending the walk at n with the path used up
AtEnd(n, ps) ==
    IF n.handle # nil THEN Hit(n.handle, ps) ELSE Miss(ps, SlashChild(n))

\* the result r of the walk below n with the rest of the path: when the
\* rest is a trailing slash that matched in no child, and without it the
\* path ends at n and n has a handler, the slash is to be removed
SlashLeft(n, rest, r) ==
    IF r.handle = nil /\ rest = <<"/">> /\ n.handle # nil
    THEN [r EXCEPT !.tsr = TRUE]
    ELSE r

RECURSIVE getValue(_, _, _)
\* walk from n with the unmatched rest of the request path and the
\* parameters captured so far
getValue(n, path, ps) ==
    IF n.nType = "param"
    THEN LET k == SegEnd(path) - 1
             ps2 == Append(ps, [key |-> Tail(n.path), value |-> Take(path, k)])
         IN  IF k = 0 THEN Miss(ps, FALSE)
             ELSE IF k = Len(path) THEN AtEnd(n, ps2)
             ELSE IF Len(n.children) > 0
             THEN SlashLeft(n, Drop(path, k),
                            getValue(n.children[1], Drop(path, k), ps2))
             ELSE Miss(ps2, Drop(path, k) = <<"/">> /\ n.handle # nil)
    ELSE IF n.nType = "catchAll"
    THEN IF path = <<>> THEN Miss(ps, FALSE)
         ELSE Hit(n.handle,
                  Append(ps, [key |-> Tail(n.path), value |-> <<"/">> \o path]))
    ELSE IF path = n.path THEN AtEnd(n, ps)
    ELSE IF HasPrefix(path, n.path)
    THEN LET rest == Drop(path, Len(n.path))
             k == IndexOf(n.indices, rest[1])
         IN  IF k # 0
             THEN SlashLeft(n, rest, getValue(n.children[k], rest, ps))
             ELSE IF n.wildChild
             THEN SlashLeft(n, rest, getValue(n.children[1], rest, ps))
             ELSE Miss(ps, rest = <<"/">> /\ n.handle # nil)
    ELSE Miss(ps, n.path = Append(path, "/") /\ n.handle # nil)

----------------------------------------------------------------------------
(* Case-insensitive repair (specification 4.4).  Scalars are ASCII bytes;  *)
(* the walk commits to one child and never returns to a sibling.           *)

Fold(c) == IF c = "A" THEN "a" ELSE c

FoldStr(s) == [i \in 1..Len(s) |-> Fold(s[i])]

Found(out) == [found |-> TRUE, out |-> out]

NotFound == [found |-> FALSE, out |-> <<>>]

\* the child to descend into for byte c: the one indexed by c itself,
\* else the first one indexed by a byte that folds like c; 0: none
CIIndexOf(indices, c) ==
    IF IndexOf(indices, c) # 0 THEN IndexOf(indices, c)
    ELSE IndexOf(FoldStr(indices), Fold(c))

CIAtEnd(n, out, fix) ==
    IF n.handle # nil THEN Found(out)
    ELSE IF fix /\ SlashChild(n) THEN Found(Append(out, "/"))
    ELSE NotFound

\* as in lookup: a trailing slash that matched in no child is dropped
\* when the path without it ends at a node with a handler
CISlashLeft(n, rest, out, fix, r) ==
    IF ~r.found /\ fix /\ rest = <<"/">> /\ n.handle # nil
    THEN Found(out)
    ELSE r

RECURSIVE findCaseInsensitivePathRec(_, _, _, _)
findCaseInsensitivePathRec(n, path, out, fix) ==
    IF n.nType = "param"
    THEN LET k == SegEnd(path) - 1
             out2 == out \o Take(path, k)
         IN  IF k = 0 THEN NotFound
             ELSE IF k = Len(path) THEN CIAtEnd(n, out2, fix)
             ELSE IF Len(n.children) > 0
             THEN CISlashLeft(n, Drop(path, k), out2, fix,
                      findCaseInsensitivePathRec(n.children[1],
                          Drop(path, k), out2, fix))
             ELSE IF fix /\ Drop(path, k) = <<"/">> /\ n.handle # nil
             THEN Found(out2)
             ELSE NotFound
    ELSE IF n.nType = "catchAll"
    THEN IF path = <<>> THEN NotFound ELSE Found(out \o path)
    ELSE IF /\ Len(path) >= Len(n.path)
            /\ FoldStr(Take(path, Len(n.path))) = FoldStr(n.path)
    THEN LET out2 == out \o n.path
             rest == Drop(path, Len(n.path))
         IN  IF rest = <<>> THEN CIAtEnd(n, out2, fix)
             ELSE IF CIIndexOf(n.indices, rest[1]) # 0
             THEN CISlashLeft(n, rest, out2, fix,
                      findCaseInsensitivePathRec(
                          n.children[CIIndexOf(n.indices, rest[1])],
                          rest, out2, fix))
             ELSE IF n.wildChild
             THEN CISlashLeft(n, rest, out2, fix,
                      findCaseInsensitivePathRec(n.children[1], rest,
                                                 out2, fix))
             ELSE IF fix /\ rest = <<"/">> /\ n.handle # nil
             THEN Found(out2)
             ELSE NotFound
    ELSE IF /\ fix
            /\ FoldStr(n.path) = FoldStr(Append(path, "/"))
            /\ n.handle # nil
    THEN Found(out \o n.path)
    ELSE NotFound

findCaseInsensitivePath(n, path, fix) ==
    findCaseInsensitivePathRec(n, path, <<>>, fix)

----------------------------------------------------------------------------
(* Inputs.                                                                 *)

PathChars == {"/", "a", "A"}

Strs(n) == UNION {[1..k -> PathChars] : k \in 0..n}

\* request paths: they begin with '/'
Paths == {<<"/">> \o s : s \in Strs(MaxPathLen - 1)}

Handles == {"h1", "h2"}

\* patterns the grammar allows
LegalPatterns ==
    { <<"/">>, <<"/", "a">>, <<"/", "a", "/">>, <<"/", "A", "/">>,
      <<"/", "a", "a">>, <<"/", ":", "x">>, <<"/", ":", "y">>,
      <<"/", ":", "x", "/">>, <<"/", "*", "y">>,
      <<"/", "a", "/", ":", "x">>, <<"/", "a", "/", "*", "y">>,
      <<"/", "a", "/", "a">>, <<"/", ":", "x", "/", "a">> }

\* patterns AddRoute must refuse whatever is registered
IllegalPatterns ==
    { <<>>, <<"a">>, <<"/", ":">>, <<"/", ":", "x", ":", "y">>,
      <<"/", "*", "y", "/", "a">>, <<"/", "a", "*", "y">> }

Patterns == LegalPatterns \cup IllegalPatterns

----------------------------------------------------------------------------
(* Router (src/router.go).                                                 *)

NoCall ==
    [op |-> "none", path |-> <<>>, handle |-> nil, fix |-> FALSE,
     panicked |-> FALSE, h |-> nil, ps |-> <<>>, tsr |-> FALSE,
     out |-> <<>>, found |-> FALSE]

Max(a, b) == IF a > b THEN a ELSE b

\* Router.updateMaxParams
updateMaxParams(mp, path) ==
    IF countParams(path) > mp THEN countParams(path) ELSE mp

\* Router.lazyInitParamsPool: the value of paramsPool.New # nil afterwards
lazyInitParamsPool(new, mp) ==
    IF ~(~new /\ mp > 0) THEN new ELSE TRUE

\* AddRoute that allocates a new root on every call
AddRouteResult_FreshRoot(path, handle) ==
    IF Len(path) < 1 \/ path[1] # "/" \/ handle = nil
    THEN [panicked |-> TRUE, root |-> root, maxParams |-> maxParams,
          poolNew |-> poolNew]
    ELSE LET r == addRoute(EmptyNode, path, handle)
         IN  IF ~r.ok
             THEN [panicked |-> TRUE, root |-> <<EmptyNode>>,
                   maxParams |-> maxParams, poolNew |-> poolNew]
             ELSE [panicked |-> FALSE, root |-> <<r.node>>,
                   maxParams |-> updateMaxParams(maxParams, path),
                   poolNew |-> lazyInitParamsPool(
                                   poolNew, updateMaxParams(maxParams, path))]

\* the state Router.AddRoute(path, handle) leaves and whether it panicked
AddRouteResult(path, handle) ==
    IF Len(path) < 1 \/ path[1] # "/"
    THEN [panicked |-> TRUE, root |-> root, maxParams |-> maxParams,
          poolNew |-> poolNew]
    ELSE IF handle = nil
    THEN [panicked |-> TRUE, root |-> root, maxParams |-> maxParams,
          poolNew |-> poolNew]
    ELSE LET root1 == IF root = <<>> THEN <<EmptyNode>> ELSE root
             r == addRoute(root1[1], path, handle)
         IN  IF ~r.ok
             THEN [panicked |-> TRUE, root |-> root1,
                   maxParams |-> maxParams, poolNew |-> poolNew]
             ELSE [panicked |-> FALSE, root |-> <<r.node>>,
                   maxParams |-> updateMaxParams(maxParams, path),
                   poolNew |-> lazyInitParamsPool(
                                   poolNew, updateMaxParams(maxParams, path))]

\* Router.AddRoute
AddRoute(path, handle) ==
    LET r == AddRouteResult(path, handle)
    IN  /\ res.op = "none"
        /\ ~r.panicked => Cardinality(DOMAIN routes) < MaxRoutes
        /\ root' = r.root
        /\ maxParams' = r.maxParams
        /\ poolNew' = r.poolNew
        /\ pool' = pool
        /\ routes' = IF r.panicked THEN routes
                     ELSE [q \in DOMAIN routes \cup {path} |->
                              IF q = path THEN handle ELSE routes[q]]
        /\ res' = [NoCall EXCEPT !.op = "AddRoute", !.path = path,
                                 !.handle = handle, !.panicked = r.panicked]
        /\ UNCHANGED <<hvars, kvars>>

\* Lookup that returns false for tsr whenever it returns no handle
LookupResult_TsrLost(path) ==
    IF root = <<>>
    THEN [panicked |-> FALSE, h |-> nil, ps |-> <<>>, tsr |-> FALSE,
          pool |-> pool]
    ELSE LET v == getValue(root[1], path, <<>>)
         IN  [panicked |-> FALSE, h |-> v.handle,
              ps |-> IF v.handle = nil THEN <<>> ELSE v.ps,
              tsr |-> FALSE, pool |-> pool]

\* Lookup that returns the handle without the captured parameters
LookupResult_DropsParams(path) ==
    IF root = <<>>
    THEN [panicked |-> FALSE, h |-> nil, ps |-> <<>>, tsr |-> FALSE,
          pool |-> pool]
    ELSE LET v == getValue(root[1], path, <<>>)
         IN  [panicked |-> FALSE, h |-> v.handle, ps |-> <<>>,
              tsr |-> v.tsr, pool |-> pool]

\* what Router.Lookup(path) returns and the pool it leaves.  getValue asks
\* getParams for a buffer when it captures its first parameter.
LookupResult(path) ==
    IF root = <<>>
    THEN [panicked |-> FALSE, h |-> nil, ps |-> <<>>, tsr |-> FALSE,
          pool |-> pool]
    ELSE LET v == getValue(root[1], path, <<>>)
             asked == Len(v.ps) > 0
             pool1 == IF asked /\ pool > 0 THEN pool - 1 ELSE pool
         IN  IF asked /\ pool = 0 /\ ~poolNew
             THEN [panicked |-> TRUE, h |-> nil, ps |-> <<>>, tsr |-> FALSE,
                   pool |-> pool]
             ELSE IF v.handle = nil
             THEN [panicked |-> FALSE, h |-> nil, ps |-> <<>>, tsr |-> v.tsr,
                   pool |-> IF asked THEN pool1 + 1 ELSE pool1]
             ELSE [panicked |-> FALSE, h |-> v.handle, ps |-> v.ps,
                   tsr |-> v.tsr, pool |-> pool1]

\* Router.Lookup
Lookup(path) ==
    LET r == LookupResult(path)
    IN  /\ res.op = "none"
        /\ pool' = r.pool
        /\ res' = [NoCall EXCEPT !.op = "Lookup", !.path = path,
                                 !.panicked = r.panicked, !.h = r.h,
                                 !.ps = r.ps, !.tsr = r.tsr]
        /\ UNCHANGED <<root, maxParams, poolNew, routes, hvars, kvars>>

\* what Router.FindCaseInsensitivePath returns: it calls the method on
\* r.root without a nil check, and the method reads the node
FindCaseInsensitivePathResult(path, fix) ==
    IF root = <<>>
    THEN [panicked |-> TRUE, out |-> <<>>, found |-> FALSE]
    ELSE LET r == findCaseInsensitivePath(root[1], path, fix)
         IN  [panicked |-> FALSE, out |-> r.out, found |-> r.found]

\* Router.FindCaseInsensitivePath
FindCaseInsensitivePath(path, fix) ==
    LET r == FindCaseInsensitivePathResult(path, fix)
    IN  /\ res.op = "none"
        /\ res' = [NoCall EXCEPT !.op = "FindCaseInsensitivePath",
                                 !.path = path, !.fix = fix,
                                 !.panicked = r.panicked, !.out = r.out,
                                 !.found = r.found]
        /\ UNCHANGED <<root, maxParams, poolNew, pool, routes, hvars, kvars>>

\* the caller takes the result; the router is idle again
Return ==
    /\ res.op # "none"
    /\ res' = NoCall
    /\ UNCHANGED <<root, maxParams, poolNew, pool, routes, hvars, kvars>>

----------------------------------------------------------------------------
(* HttpRouter (src/router_test.go, package dhttprouter).  Its Router is    *)
(* the one of src/router_test.go:551-596: a root and nothing else; Lookup  *)
(* fills the buffer the caller passes.  SaveMatchedRoutePath keeps its     *)
(* default, false.                                                         *)

MaxHandled == 2     \* successful Handle calls per run

RegMethods == {"", "GET", "POST", "OPTIONS"}

ReqMethods == {"GET", "POST", "OPTIONS", "CONNECT"}

HttpPatterns == { <<"/", "a">>, <<"/", "a", "/">>, <<"/", ":", "x">>,
                  <<"/", ":">> }

ReqPaths == {p \in Paths : Len(p) < MaxPathLen}

\* byte order of the method names
MethodRank(m) ==
    CASE m = "CONNECT" -> 1 [] m = "GET" -> 2 [] m = "OPTIONS" -> 3
      [] m = "POST" -> 4 [] OTHER -> 0

RECURSIVE Sorted(_)
\* the methods of S in ascending order
Sorted(S) ==
    IF S = {} THEN <<>>
    ELSE LET m == CHOOSE x \in S : \A y \in S : MethodRank(x) <= MethodRank(y)
         IN  <<m>> \o Sorted(S \ {m})

\* drouter.Router.Lookup(path, params) of a method's router
RouterLookup(rt, path) ==
    IF rt = <<>> THEN Miss(<<>>, FALSE) ELSE getValue(rt[1], path, <<>>)

\* HttpRouter.allowed for a specific path, on the routers rs
allowedOn(rs, path, reqMethod) ==
    LET A == {m \in DOMAIN rs :
                 /\ m # reqMethod
                 /\ m # "OPTIONS"
                 /\ RouterLookup(rs[m], path).handle # nil}
    IN  IF A # {} THEN Sorted(A \cup {"OPTIONS"}) ELSE <<>>

\* HttpRouter.allowed("*", ""): the server-wide list, on the routers rs
allowedGlobal(rs) ==
    LET A == {m \in DOMAIN rs : m # "OPTIONS"}
    IN  IF A # {} THEN Sorted(A \cup {"OPTIONS"}) ELSE <<>>

allowed(path, reqMethod) == allowedOn(routers, path, reqMethod)

RECURSIVE CleanPath(_)
\* drouter.CleanPath on paths without '.': repeated slashes collapse
CleanPath(p) ==
    IF Len(p) < 2 THEN p
    ELSE IF p[1] = "/" /\ p[2] = "/" THEN CleanPath(Tail(p))
    ELSE <<p[1]>> \o CleanPath(Tail(p))

NoResponse ==
    [kind |-> "none", method |-> "", path |-> <<>>, code |-> 0,
     location |-> <<>>, allow |-> <<>>, h |-> nil, ps |-> <<>>]

\* the state HttpRouter.Handle(method, path, handle) leaves
HandleResult(method, path, handle) ==
    IF method = "" \/ Len(path) < 1 \/ path[1] # "/" \/ handle = nil
    THEN [panicked |-> TRUE, routers |-> routers,
          globalAllowed |-> globalAllowed, hMaxParams |-> hMaxParams,
          hPoolNew |-> hPoolNew]
    ELSE LET created == method \notin DOMAIN routers
             rs1 == [m \in DOMAIN routers \cup {method} |->
                        IF m \in DOMAIN routers THEN routers[m] ELSE <<>>]
             ga1 == IF created THEN allowedGlobal(rs1) ELSE globalAllowed
             root1 == IF rs1[method] = <<>> THEN <<EmptyNode>>
                      ELSE rs1[method]
             r == addRoute(root1[1], path, handle)
         IN  IF ~r.ok
             THEN [panicked |-> TRUE,
                   routers |-> [rs1 EXCEPT ![method] = root1],
                   globalAllowed |-> ga1, hMaxParams |-> hMaxParams,
                   hPoolNew |-> hPoolNew]
             ELSE [panicked |-> FALSE,
                   routers |-> [rs1 EXCEPT ![method] = <<r.node>>],
                   globalAllowed |-> ga1,
                   hMaxParams |-> Max(hMaxParams, countParams(path)),
                   hPoolNew |-> TRUE]

\* HttpRouter.Handle
Handle(method, path, handle) ==
    LET r == HandleResult(method, path, handle)
    IN  /\ resp.kind = "none"
        /\ ~r.panicked => Cardinality(handled) < MaxHandled
        /\ routers' = r.routers
        /\ globalAllowed' = r.globalAllowed
        /\ hMaxParams' = r.hMaxParams
        /\ hPoolNew' = r.hPoolNew
        /\ handled' = IF r.panicked THEN handled
                      ELSE handled \cup {<<method, path>>}
        /\ resp' = [NoResponse EXCEPT
                      !.kind = IF r.panicked THEN "handlePanic" ELSE "handleOk",
                      !.method = method, !.path = path]
        /\ UNCHANGED <<hPool, opts, cvars, kvars>>

\* the redirect status: 301 for GET, 308 for every other method
RedirectCode(method) == IF method = "GET" THEN 301 ELSE 308

\* a redirect that appends the slash whatever the path ends in
TsrTarget_AlwaysAppends(path) == Append(path, "/")

\* the trailing-slash redirect target
TsrTarget(path) ==
    IF Len(path) > 1 /\ path[Len(path)] = "/"
    THEN Take(path, Len(path) - 1)
    ELSE Append(path, "/")

\* the part of ServeHTTP after the request method's router gave nothing:
\* automatic OPTIONS, 405, 404
Fallback(method, path) ==
    IF method = "OPTIONS" /\ opts.HandleOPTIONS
    THEN IF allowed(path, "OPTIONS") # <<>>
         THEN [NoResponse EXCEPT !.kind = "options", !.code = 200,
                                 !.allow = allowed(path, "OPTIONS")]
         ELSE [NoResponse EXCEPT !.kind = "notFound", !.code = 404]
    ELSE IF opts.HandleMethodNotAllowed /\ allowed(path, method) # <<>>
    THEN [NoResponse EXCEPT !.kind = "methodNotAllowed", !.code = 405,
                            !.allow = allowed(path, method)]
    ELSE [NoResponse EXCEPT !.kind = "notFound", !.code = 404]

\* the response of HttpRouter.ServeHTTP and the pool it leaves; PanicHandler
\* is nil, so a panic leaves ServeHTTP
ServeResult(method, path) ==
    IF method \notin DOMAIN routers
    THEN [resp |-> Fallback(method, path), hPool |-> hPool]
    ELSE IF hPool = 0 /\ ~hPoolNew
    THEN [resp |-> [NoResponse EXCEPT !.kind = "panic"], hPool |-> hPool]
    ELSE LET pool1 == IF hPool > 0 THEN hPool - 1 ELSE hPool
             v == RouterLookup(routers[method], path)
             fixed == findCaseInsensitivePath(routers[method][1],
                          CleanPath(path), opts.RedirectTrailingSlash)
         IN  IF v.handle # nil
             THEN [resp |-> [NoResponse EXCEPT !.kind = "handler",
                                !.code = 200, !.h = v.handle, !.ps = v.ps],
                   hPool |-> pool1 + 1]
             ELSE IF method # "CONNECT" /\ path # <<"/">>
                     /\ v.tsr /\ opts.RedirectTrailingSlash
             THEN [resp |-> [NoResponse EXCEPT !.kind = "redirect",
                                !.code = RedirectCode(method),
                                !.location = TsrTarget(path)],
                   hPool |-> pool1]
             ELSE IF method # "CONNECT" /\ path # <<"/">>
                     /\ opts.RedirectFixedPath /\ fixed.found
             THEN [resp |-> [NoResponse EXCEPT !.kind = "redirect",
                                !.code = RedirectCode(method),
                                !.location = fixed.out],
                   hPool |-> pool1]
             ELSE [resp |-> Fallback(method, path), hPool |-> pool1]

\* HttpRouter.ServeHTTP
ServeHTTP(method, path) ==
    LET r == ServeResult(method, path)
    IN  /\ resp.kind = "none"
        /\ hPool' = r.hPool
        /\ resp' = [r.resp EXCEPT !.method = method, !.path = path]
        /\ UNCHANGED <<routers, hPoolNew, hMaxParams, globalAllowed, opts,
                       handled, cvars, kvars>>

\* the application assigns the exported option fields
SetOptions(o) ==
    /\ resp.kind = "none"
    /\ o # opts
    /\ opts' = o
    /\ UNCHANGED <<routers, hPoolNew, hPool, hMaxParams, globalAllowed,
                   handled, resp, cvars, kvars>>

\* the response is written; the router is idle again
Done ==
    /\ resp.kind # "none"
    /\ resp' = NoResponse
    /\ UNCHANGED <<routers, hPoolNew, hPool, hMaxParams, globalAllowed,
                   opts, handled, cvars, kvars>>

----------------------------------------------------------------------------
(* Concurrent callers.  Goroutines call Router.Lookup,                     *)
(* Router.FindCaseInsensitivePath and HttpRouter.ServeHTTP while no        *)
(* AddRoute and no Handle is running.  A call advances in steps: every     *)
(* step reads or writes memory once (the root pointer, a pool, a           *)
(* parameter buffer).  A buffer that no pool and no call refers to is      *)
(* garbage; its name is free for the next allocation.                      *)

NumProcs == 2       \* goroutines
MaxBufs == 2        \* parameter buffers alive at a time

Procs == 1..NumProcs

Bufs == 1..MaxBufs

\* the routes registered before and between the concurrent calls
ConcPatterns == { <<"/", ":", "x">>, <<"/", ":", "x", "/", ":", "y">> }

ConcPaths == { <<"/", "a">>, <<"/", "A", "/", "a">> }

\* a goroutine outside every call; b = 0: it holds no buffer
IdleCall ==
    [op |-> "none", pc |-> "idle", method |-> "", path |-> <<>>,
     fix |-> FALSE, b |-> 0, n |-> 0, panicked |-> FALSE, h |-> nil,
     tsr |-> FALSE, out |-> <<>>, found |-> FALSE, resp |-> NoResponse]

AllIdle == \A p \in Procs : calls[p].op = "none"

\* the buffers some call holds
Held == {calls[p].b : p \in Procs} \ {0}

\* the buffers paramsPool.Get() may return from the pool fr: one that
\* rests in it, or a new one from New
PoolGet(fr, new) ==
    fr \cup (IF new THEN Bufs \ (free \cup hFree \cup Held) ELSE {})

\* the walk of call c through its trie: what getValue finds and captures
WalkOf(c) ==
    IF c.op = "Lookup" THEN getValue(root[1], c.path, <<>>)
    ELSE RouterLookup(routers[c.method], c.path)

\* the Params the holder of buffer b reads through it
Seen(b) == IF b = 0 THEN <<>> ELSE bufs[b]

\* the position after a buffer is there, or is not needed
AfterGet(ps) == IF Len(ps) > 0 THEN "capture" ELSE "return"

\* Router.Lookup up to the call of getValue: the root is read; getValue
\* asks getParams for a buffer when it captures its first parameter
LookupEntered(path) ==
    IF root = <<>>
    THEN [IdleCall EXCEPT !.op = "Lookup", !.path = path, !.pc = "done"]
    ELSE [IdleCall EXCEPT !.op = "Lookup", !.path = path,
             !.pc = IF Len(getValue(root[1], path, <<>>).ps) > 0
                    THEN "get" ELSE "return"]

LookupCall(p, path) ==
    /\ res.op = "none" /\ resp.kind = "none"
    /\ calls[p].op = "none"
    /\ calls' = [calls EXCEPT ![p] = LookupEntered(path)]
    /\ UNCHANGED <<free, hFree, bufs, cvars, hvars>>

\* Router.getParams: a buffer leaves the pool and is cut to length 0; with
\* an empty pool and no New, Get returns nil and the cut dereferences it
LookupGetParams(p) ==
    /\ calls[p].op = "Lookup" /\ calls[p].pc = "get"
    /\ IF free = {} /\ ~poolNew
       THEN /\ calls' = [calls EXCEPT ![p].pc = "done", ![p].panicked = TRUE]
            /\ UNCHANGED <<free, bufs, pool>>
       ELSE \E b \in PoolGet(free, poolNew) :
                /\ free' = free \ {b}
                /\ pool' = Cardinality(free \ {b})
                /\ bufs' = [bufs EXCEPT ![b] = <<>>]
                /\ calls' = [calls EXCEPT ![p].b = b, ![p].pc = "capture"]
    /\ UNCHANGED <<hFree, root, maxParams, poolNew, routes, res, hvars>>

\* getValue appends the next captured parameter to the call's buffer
Capture(p) ==
    /\ calls[p].pc = "capture"
    /\ bufs' = [bufs EXCEPT ![calls[p].b] =
                   Append(@, WalkOf(calls[p]).ps[calls[p].n + 1])]
    /\ calls' = [calls EXCEPT
           ![p].n = @ + 1,
           ![p].pc = IF calls[p].n + 1 = Len(WalkOf(calls[p]).ps)
                     THEN "return" ELSE "capture"]
    /\ UNCHANGED <<free, hFree, cvars, hvars>>

\* Lookup that puts the buffer back whatever it returns
LookupPut_Always(fr, b, handle) == IF b # 0 THEN fr \cup {b} ELSE fr

\* the pool after Lookup's return: putParams only when no handle is found
LookupPut(fr, b, handle) ==
    IF handle = nil /\ b # 0 THEN fr \cup {b} ELSE fr

\* the end of Router.Lookup: without a handle the buffer goes back and
\* nothing is returned; with one the caller receives the buffer's slice
LookupReturned(c, v) ==
    [c EXCEPT !.pc = "done", !.h = v.handle, !.tsr = v.tsr,
              !.b = IF v.handle = nil THEN 0 ELSE c.b]

LookupReturn(p) ==
    /\ calls[p].op = "Lookup" /\ calls[p].pc = "return"
    /\ free' = LookupPut(free, calls[p].b, WalkOf(calls[p]).handle)
    /\ pool' = Cardinality(free')
    /\ calls' = [calls EXCEPT ![p] = LookupReturned(calls[p], WalkOf(calls[p]))]
    /\ UNCHANGED <<hFree, bufs, root, maxParams, poolNew, routes, res, hvars>>

\* Router.FindCaseInsensitivePath: it reads the trie and nothing else
FindReturned(path, fix, r) ==
    [IdleCall EXCEPT !.op = "Find", !.pc = "done", !.path = path,
                     !.fix = fix, !.panicked = r.panicked, !.out = r.out,
                     !.found = r.found]

FindCall(p, path, fix) ==
    /\ res.op = "none" /\ resp.kind = "none"
    /\ calls[p].op = "none"
    /\ calls' = [calls EXCEPT ![p] =
           FindReturned(path, fix, FindCaseInsensitivePathResult(path, fix))]
    /\ UNCHANGED <<free, hFree, bufs, cvars, hvars>>

\* HttpRouter.ServeHTTP up to getParams: without a router for the method
\* the request goes to the fallbacks at once
ServeEntered(method, path) ==
    IF method \notin DOMAIN routers
    THEN [IdleCall EXCEPT !.op = "Serve", !.method = method, !.path = path,
                          !.pc = "done", !.resp = Fallback(method, path)]
    ELSE [IdleCall EXCEPT !.op = "Serve", !.method = method, !.path = path,
                          !.pc = "get"]

ServeCall(p, method, path) ==
    /\ res.op = "none" /\ resp.kind = "none"
    /\ calls[p].op = "none"
    /\ calls' = [calls EXCEPT ![p] = ServeEntered(method, path)]
    /\ UNCHANGED <<free, hFree, bufs, cvars, hvars>>

\* HttpRouter.getParams, before the lookup
ServeGetParams(p) ==
    /\ calls[p].op = "Serve" /\ calls[p].pc = "get"
    /\ IF hFree = {} /\ ~hPoolNew
       THEN /\ calls' = [calls EXCEPT ![p].pc = "done", ![p].panicked = TRUE,
                            ![p].resp = [NoResponse EXCEPT !.kind = "panic"]]
            /\ UNCHANGED <<hFree, bufs, hPool>>
       ELSE \E b \in PoolGet(hFree, hPoolNew) :
                /\ hFree' = hFree \ {b}
                /\ hPool' = Cardinality(hFree \ {b})
                /\ bufs' = [bufs EXCEPT ![b] = <<>>]
                /\ calls' = [calls EXCEPT ![p].b = b,
                       ![p].pc = AfterGet(WalkOf(calls[p]).ps)]
    /\ UNCHANGED <<free, cvars, routers, hPoolNew, hMaxParams, globalAllowed,
                   opts, handled, resp>>

\* ServeHTTP after the lookup: the handle runs on the call's buffer, or
\* the response is a redirect or a fallback and the buffer is dropped
ServeDispatched(c, r) ==
    IF r.kind = "handler"
    THEN [c EXCEPT !.pc = "handler", !.resp = [r EXCEPT !.ps = <<>>]]
    ELSE [c EXCEPT !.pc = "done", !.resp = r, !.b = 0]

ServeDispatch(p) ==
    /\ calls[p].op = "Serve" /\ calls[p].pc = "return"
    /\ calls' = [calls EXCEPT ![p] = ServeDispatched(calls[p],
                     ServeResult(calls[p].method, calls[p].path).resp)]
    /\ bufs' = IF calls'[p].b = 0 THEN [bufs EXCEPT ![calls[p].b] = <<>>]
               ELSE bufs
    /\ UNCHANGED <<free, hFree, cvars, hvars>>

\* the handle has returned: putParams
ServePut(p) ==
    /\ calls[p].pc = "handler"
    /\ hFree' = hFree \cup {calls[p].b}
    /\ hPool' = Cardinality(hFree')
    /\ calls' = [calls EXCEPT ![p].pc = "done", ![p].b = 0]
    /\ UNCHANGED <<free, bufs, cvars, routers, hPoolNew, hMaxParams,
                   globalAllowed, opts, handled, resp>>

\* the caller has used what the call returned; a buffer it still holds
\* becomes garbage
Release(p) ==
    /\ calls[p].pc = "done"
    /\ calls' = [calls EXCEPT ![p] = IdleCall]
    /\ bufs' = IF calls[p].b = 0 THEN bufs
               ELSE [bufs EXCEPT ![calls[p].b] = <<>>]
    /\ UNCHANGED <<free, hFree, cvars, hvars>>

Options ==
    [RedirectTrailingSlash : BOOLEAN, RedirectFixedPath : BOOLEAN,
     HandleMethodNotAllowed : BOOLEAN, HandleOPTIONS : BOOLEAN]

Init ==
    /\ root = <<>>
    /\ maxParams = 0
    /\ poolNew = FALSE
    /\ pool = 0
    /\ routes = <<>>
    /\ res = NoCall
    /\ routers = <<>>
    /\ hPoolNew = FALSE
    /\ hPool = 0
    /\ hMaxParams = 0
    /\ globalAllowed = <<>>
    /\ opts = [RedirectTrailingSlash |-> TRUE, RedirectFixedPath |-> TRUE,
               HandleMethodNotAllowed |-> TRUE, HandleOPTIONS |-> TRUE]
    /\ handled = {}
    /\ resp = NoResponse
    /\ calls = [p \in Procs |-> IdleCall]
    /\ free = {}
    /\ hFree = {}
    /\ bufs = [b \in Bufs |-> <<>>]

Next ==
    \/ \E path \in Patterns, handle \in Handles \cup {nil} :
           AddRoute(path, handle)
    \/ \E path \in Paths : Lookup(path)
    \/ \E path \in Paths, fix \in BOOLEAN :
           FindCaseInsensitivePath(path, fix)
    \/ Return

Spec == Init /\ [][Next]_vars

NextHttp ==
    \/ \E method \in RegMethods, path \in HttpPatterns,
          handle \in {"h1", nil} : Handle(method, path, handle)
    \/ \E method \in ReqMethods, path \in ReqPaths : ServeHTTP(method, path)
    \/ \E o \in Options : SetOptions(o)
    \/ Done

SpecHttp == Init /\ [][NextHttp]_vars

\* routes are registered while every goroutine is idle; calls run in any
\* interleaving in between
NextConc ==
    \/ \E path \in ConcPatterns : AllIdle /\ AddRoute(path, "h1")
    \/ Return
    \/ AllIdle /\ Handle("GET", <<"/", ":", "x">>, "h1")
    \/ Done
    \/ \E p \in Procs, path \in ConcPaths : LookupCall(p, path)
    \/ \E p \in Procs : LookupGetParams(p)
    \/ \E p \in Procs : Capture(p)
    \/ \E p \in Procs : LookupReturn(p)
    \/ \E p \in Procs, path \in ConcPaths : FindCall(p, path, TRUE)
    \/ \E p \in Procs, path \in ConcPaths : ServeCall(p, "GET", path)
    \/ \E p \in Procs : ServeGetParams(p)
    \/ \E p \in Procs : ServeDispatch(p)
    \/ \E p \in Procs : ServePut(p)
    \/ \E p \in Procs : Release(p)

SpecConc == Init /\ [][NextConc]_vars

----------------------------------------------------------------------------
(* What the claims speak about: matching a path against a pattern, read    *)
(* off the pattern alone, and the nodes of the trie.                       *)

NoMatch == [ok |-> FALSE, ps |-> <<>>]

RECURSIVE Match(_, _)
\* path matches pat: static bytes equal, :name one non-empty segment,
\* *name the non-empty remainder (captured with the '/' before it)
Match(pat, path) ==
    IF pat = <<>> THEN [ok |-> path = <<>>, ps |-> <<>>]
    ELSE IF pat[1] = ":"
    THEN LET ne == SegEnd(pat) - 1
             k == SegEnd(path) - 1
             m == Match(Drop(pat, ne), Drop(path, k))
         IN  IF k = 0 \/ ~m.ok THEN NoMatch
             ELSE [ok |-> TRUE,
                   ps |-> <<[key |-> SubSeq(pat, 2, ne),
                             value |-> Take(path, k)]>> \o m.ps]
    ELSE IF pat[1] = "*"
    THEN IF path = <<>> THEN NoMatch
         ELSE [ok |-> TRUE,
               ps |-> <<[key |-> Tail(pat), value |-> <<"/">> \o path]>>]
    ELSE IF path # <<>> /\ path[1] = pat[1]
    THEN Match(Tail(pat), Tail(path))
    ELSE NoMatch

\* the registered patterns path matches
Matching(path) == {p \in DOMAIN routes : Match(p, path).ok}

\* path with its trailing slash toggled
Toggle(path) ==
    IF path[Len(path)] = "/" THEN Take(path, Len(path) - 1)
    ELSE Append(path, "/")

RECURSIVE Nodes(_)
\* n and every node below it
Nodes(n) ==
    {n} \cup UNION {Nodes(n.children[k]) : k \in 1..Len(n.children)}

TrieNodes == IF root = <<>> THEN {} ELSE Nodes(root[1])

IsWildNode(n) == n.nType \in {"param", "catchAll"}

\* p and q disagree at a position: different wildcards there, or a
\* wildcard in one and a static byte in the other
Conflict(p, q) ==
    \E i \in 1..Min(Len(p), Len(q)) :
        /\ Take(p, i - 1) = Take(q, i - 1)
        /\ \/ /\ IsWild(p[i]) /\ IsWild(q[i])
              /\ Take(Drop(p, i - 1), SegEnd(Drop(p, i - 1)) - 1)
                   # Take(Drop(q, i - 1), SegEnd(Drop(q, i - 1)) - 1)
           \/ IsWild(p[i]) # IsWild(q[i])

\* the handles the trie t holds for pattern p
HandlesOf(t, p) ==
    IF t = <<>> THEN {}
    ELSE {n.handle : n \in {m \in Nodes(t[1]) :
                               m.handle # nil /\ m.fullPath = p}}

----------------------------------------------------------------------------
(* Claims.                                                                 *)

C2_TsrIffToggledMatches ==
    res.op = "Lookup" =>
        (res.tsr <=> (res.h = nil /\ Matching(Toggle(res.path)) # {}))

C2_Witness ==
    /\ res.op = "Lookup"
    /\ res.tsr
    /\ res.path = <<"/", "a", "/">>
    /\ <<"/", "a", "/", ":", "x">> \in DOMAIN routes
    /\ <<"/", "a">> \in DOMAIN routes

\* C3: a failed AddRoute leaves the trie, maxParams and the pool as they
\* were.
C3_FailedAddRouteChangesNothing ==
    [][(res'.op = "AddRoute" /\ res'.panicked) =>
          /\ root' = root
          /\ maxParams' = maxParams
          /\ poolNew' = poolNew
          /\ pool' = pool]_vars

\* C4: AddRoute fails for a pattern that is registered already or that
\* conflicts with a registered one, and every registered pattern keeps the
\* one handler of its first registration.
C4_ConflictsRejected ==
    [][res'.op = "AddRoute" =>
          /\ (\/ res'.path \in DOMAIN routes
              \/ \E q \in DOMAIN routes : Conflict(res'.path, q))
                => res'.panicked
          /\ \A q \in DOMAIN routes :
                 /\ q \in DOMAIN routes'
                 /\ routes'[q] = routes[q]
                 /\ HandlesOf(root', q) = {routes[q]}]_vars

C4_Witness ==
    /\ res.op = "AddRoute"
    /\ res.panicked
    /\ res.handle = "h2"
    /\ res.path \in DOMAIN routes
    /\ routes[res.path] = "h1"
    /\ \E q \in DOMAIN routes : Conflict(q, <<"/", ":", "y">>)

\* C5: Lookup and FindCaseInsensitivePath return normally in every state,
\* also before the first AddRoute.
C5_LookupAndRepairNeverFail ==
    res.op \in {"Lookup", "FindCaseInsensitivePath"} => ~res.panicked

\* what the call of goroutine p returned is what the same call returns
\* when it runs alone in the same router
ResultAsAlone(p) ==
    LET c == calls[p]
    IN  /\ (c.op = "Lookup" /\ c.pc = "done") =>
               /\ c.panicked = LookupResult(c.path).panicked
               /\ c.h = LookupResult(c.path).h
               /\ c.tsr = LookupResult(c.path).tsr
               /\ Seen(c.b) = LookupResult(c.path).ps
        /\ (c.op = "Find" /\ c.pc = "done") =>
               /\ c.panicked = FindCaseInsensitivePathResult(c.path, c.fix).panicked
               /\ c.out = FindCaseInsensitivePathResult(c.path, c.fix).out
               /\ c.found = FindCaseInsensitivePathResult(c.path, c.fix).found
        /\ (c.op = "Serve" /\ c.pc \in {"handler", "done"}) =>
               /\ [c.resp EXCEPT !.ps = <<>>]
                    = [ServeResult(c.method, c.path).resp EXCEPT !.ps = <<>>]
               /\ c.pc = "handler" =>
                      Seen(c.b) = ServeResult(c.method, c.path).resp.ps

\* C6: while calls of Lookup, FindCaseInsensitivePath and ServeHTTP run
\* concurrently, no step changes a trie, no buffer is held by two calls or
\* held by a call while it rests in a pool, and every call returns what it
\* returns when run alone.
C6_ConcurrentCallsSafe ==
    /\ [](\A p \in Procs :
             /\ calls[p].b # 0 =>
                    /\ calls[p].b \notin free \cup hFree
                    /\ \A q \in Procs \ {p} : calls[q].b # calls[p].b
             /\ ResultAsAlone(p))
    /\ [][(~AllIdle \/ ~AllIdle') =>
             (root' = root /\ routers' = routers)]_vars

C6_Witness ==
    /\ calls[1].op = "Lookup" /\ calls[1].pc = "done"
    /\ calls[1].h # nil /\ Len(Seen(calls[1].b)) = 2
    /\ calls[2].op = "Serve" /\ calls[2].pc = "handler"
    /\ Len(Seen(calls[2].b)) = 1
    /\ calls[2].path # calls[1].path

TsrCase ==
    /\ resp.kind \in {"handler", "redirect", "options", "methodNotAllowed",
                      "notFound", "panic"}
    /\ resp.method \in DOMAIN routers
    /\ RouterLookup(routers[resp.method], resp.path).handle = nil
    /\ RouterLookup(routers[resp.method], resp.path).tsr
    /\ opts.RedirectTrailingSlash
    /\ resp.method # "CONNECT"
    /\ resp.path # <<"/">>

\* C8: under the conditions of the trailing-slash redirect the response is
\* a redirect to the path with its trailing slash toggled, 301 for GET and
\* 308 otherwise, and a handler is registered for the target under the
\* request's method.
C8_TsrRedirect ==
    TsrCase =>
        /\ resp.kind = "redirect"
        /\ resp.code = (IF resp.method = "GET" THEN 301 ELSE 308)
        /\ resp.location = Toggle(resp.path)
        /\ \E hp \in handled :
               hp[1] = resp.method /\ Match(hp[2], resp.location).ok

C8_Witness ==
    /\ TsrCase
    /\ resp.code = 308
    /\ resp.path = <<"/", "a", "/">>
    /\ resp.location = <<"/", "a">>
    /\ ~opts.RedirectFixedPath

\* the methods other than method and OPTIONS with a handler registered
\* for a pattern that path matches
OtherMethods(method, path) ==
    {m \in {hp[1] : hp \in handled} \ {method, "OPTIONS"} :
        \E hp \in handled : hp[1] = m /\ Match(hp[2], path).ok}

\* C9: with HandleMethodNotAllowed on, a request that ends in the
\* fallbacks gets 405 exactly when another method than OPTIONS has a
\* handler for the path, 404 otherwise; Allow is those methods and OPTIONS
\* in ascending order, without the request's own method.
C9_MethodNotAllowedIffOtherMethod ==
    (resp.kind \in {"methodNotAllowed", "notFound"}
        /\ opts.HandleMethodNotAllowed) =>
        /\ resp.kind = "methodNotAllowed"
              <=> OtherMethods(resp.method, resp.path) # {}
        /\ resp.kind = "methodNotAllowed" =>
               /\ resp.allow
                    = Sorted(OtherMethods(resp.method, resp.path)
                             \cup {"OPTIONS"})
               /\ \A i \in 1..Len(resp.allow) : resp.allow[i] # resp.method

\* C10: no node has a static child and a wildcard child; a node with
\* wildChild set has exactly one child, a wildcard; a catchAll node has no
\* children.
C10_WildcardExclusivity ==
    \A n \in TrieNodes :
        /\ ~(\E j, k \in 1..Len(n.children) :
                 IsWildNode(n.children[j]) /\ ~IsWildNode(n.children[k]))
        /\ n.wildChild =>
               Len(n.children) = 1 /\ IsWildNode(n.children[1])
        /\ n.nType = "catchAll" => n.children = <<>>

C10_Witness ==
    /\ res.op = "AddRoute"
    /\ res.panicked
    /\ res.path = <<"/", "a", "/", ":", "x">>
    /\ \E n \in TrieNodes : n.wildChild /\ n.children[1].nType = "catchAll"
    /\ \E n \in TrieNodes : Len(n.children) > 1

RECURSIVE HandlerCount(_)
\* the number of handlers in the subtree of n
HandlerCount(n) ==
    (IF n.handle # nil THEN 1 ELSE 0)
    + (IF n.children = <<>> THEN 0
       ELSE HandlerCount(n.children[1])
            + HandlerCount([n EXCEPT !.handle = nil,
                                     !.children = Tail(n.children)]))

\* the positions of the static children of n
StaticChildren(n) ==
    {k \in 1..Len(n.children) : ~IsWildNode(n.children[k])}

\* C11: at every node the priority is the number of handlers in its
\* subtree, the children stand in descending priority, and indices holds
\* one byte per static child, the first byte of that child's path, each
\* byte once.
C11_PriorityAndIndices ==
    \A n \in TrieNodes :
        /\ n.priority = HandlerCount(n)
        /\ \A k \in 1..(Len(n.children) - 1) :
               n.children[k].priority >= n.children[k + 1].priority
        /\ Len(n.indices) = Cardinality(StaticChildren(n))
        /\ \A k \in StaticChildren(n) :
               n.indices[k] = n.children[k].path[1]
        /\ \A j, k \in 1..Len(n.indices) :
               n.indices[j] = n.indices[k] => j = k

C11_Witness ==
    /\ res.op = "AddRoute"
    /\ ~res.panicked
    /\ Cardinality(DOMAIN routes) = MaxRoutes
    /\ \E n \in TrieNodes :
           /\ Len(n.children) = 2
           /\ n.children[1].priority = 2
           /\ n.children[2].priority = 1
           /\ n.indices = <<"/", "a">>
           /\ n.children[1].indices # <<>>

\* the largest wildcard count among a set of patterns, 0 for none
LargestCount(ps) ==
    IF ps = {} THEN 0
    ELSE CHOOSE c \in {countParams(p) : p \in ps} :
             \A p \in ps : countParams(p) <= c

\* C12: HttpRouter.maxParams is the largest wildcard count among the
\* registered patterns, the params pool's New is set as soon as some method
\* has a router, and no ServeHTTP call panics in getParams.
C12_PoolReadyBeforeGetParams ==
    /\ hMaxParams = LargestCount({hp[2] : hp \in handled})
    /\ DOMAIN routers # {} => hPoolNew
    /\ resp.kind # "panic"

====
